---------------------------- MODULE Spec2Model ----------------------------
(***************************************************************************)
(* A model of aws_resource_count.py: the retry wrapper around the resource *)
(* listers, the VM-image usage filter, the region fan-out over the current *)
(* account, the organization fan-out through cove, the aggregation of the  *)
(* per-(account, region) results and the workload-unit report.             *)
(*                                                                         *)
(* Timestamps are whole days.  Counts are naturals.  A lister attempt is   *)
(* a record [ok, count]: ok with the count it returned, or not ok with the *)
(* partial count its local accumulator held when the call raised.          *)
(***************************************************************************)
EXTENDS Integers, Sequences, FiniteSets, TLC

VARIABLES
    pc,                      \* position of main(): see the actions
    args,                    \* the flags of the command line read at lines 320-325
    SERVICES_CONF,           \* the kinds still configured (keys of the dict)
    total_results,           \* main's total_results: kind -> count
    loop,                    \* current_account_resources_count: <<region index, kind index>>
    guard_log,               \* per (region, kind) of the direct loop: the calls of the wrapper,
                             \* the value it returned, what the lister did (<<>>: every call raised,
                             \* <<c>>: its first call that did not raise returned c)
    direct_results,          \* what current_account_resources_count returned (line 327)
    accounts_list,           \* main's accounts_list (line 328), a set of member account ids
    only_current_account,    \* args.only_current_account, read at line 329
    tasks,                   \* the cove threads: (account, region) -> <<>> while it runs, <<Result>> after
    results_of_all_regions,  \* what cove returned: Results, Exceptions, FailedAssumeRole
    has_enumeration_errors,  \* the module global of line 25
    enumeration_errors,      \* number of logger.error records of log_enumeration_failure
    counted,                 \* resources handed out by the listers so far (bounds the inventory)
    reports,                 \* the result_str blocks print_results logged, in order
    notices,                 \* the other messages logged by main
    input,                   \* argument of a function applied on its own (SpecRetry, SpecImage, SpecReport)
    output                   \* its result

vars == <<pc, args, SERVICES_CONF, total_results, loop, guard_log,
          direct_results, accounts_list, only_current_account, tasks,
          results_of_all_regions, has_enumeration_errors, enumeration_errors, counted,
          reports, notices, input, output>>

\* groups of variables, for the UNCHANGED clauses
flags == <<args, accounts_list, only_current_account>>
direct == <<loop, guard_log>>
threads == <<tasks, results_of_all_regions>>
failures == <<has_enumeration_errors, enumeration_errors, counted>>
logged == <<reports, notices>>
alone == <<input, output>>

---------------------------------------------------------------------------
(* Bounds of the model.                                                    *)

\* regions in ALL_REGIONS
NumRegions == 2
\* member accounts the session provider targets
NumMembers == 1
\* resources in the whole inventory of a run (sum of all counts the listers return)
MaxResources == 2
\* lister invocations that exhaust their retries in one run
MaxErrors == 2
\* largest count of one lister attempt, where the wrapper is applied on its own
MaxCount == 2
\* largest partial count a lister holds when a call of the run raises
MaxPartial == 1

---------------------------------------------------------------------------
(* SERVICES_CONF, lines 184-215: the kinds in dictionary order, their      *)
(* display names and their workload divisors.                              *)

AllServices == <<"ec2", "lambda", "ecr", "ami", "ecs", "eks">>

Services == {AllServices[i] : i \in 1..Len(AllServices)}

workload_units(service) ==
    CASE service = "ec2"    -> 1
      [] service = "lambda" -> 50
      [] service = "ecr"    -> 10
      [] service = "ami"    -> 1
      [] service = "ecs"    -> 10
      [] service = "eks"    -> 1

\* the keys of a configuration, in dictionary order (dict.items())
ConfItems(conf) == SelectSeq(AllServices, LAMBDA s : s \in conf)

\* ALL_REGIONS, line 217
ALL_REGIONS == 1..NumRegions

---------------------------------------------------------------------------
(* defaultdict(int): a function on the keys touched so far.                *)

EmptyDict == [k \in {} |-> 0]

Get(d, k) == IF k \in DOMAIN d THEN d[k] ELSE 0

\* d[k] += v
AddTo(d, k, v) == [x \in (DOMAIN d) \cup {k} |-> IF x = k THEN Get(d, k) + v ELSE d[x]]

RECURSIVE SumOver(_, _)
SumOver(f, S) ==
    IF S = {} THEN 0
    ELSE LET x == CHOOSE y \in S : TRUE IN f[x] + SumOver(f, S \ {x})

---------------------------------------------------------------------------
(* retry, lines 53-69.  outs[i] is what the i-th call of func does.  The   *)
(* result: the value returned, the calls made, the warnings logged, and    *)
(* whether log_enumeration_failure ran (one logger.error, the flag set).   *)

retries == 3

Attempt(ok, count) == [ok |-> ok, count |-> count]

RECURSIVE wrapper_from(_, _)
wrapper_from(outs, retry) ==
    IF retry >= retries
    THEN [value |-> 0, calls |-> retry, warnings |-> retry, failed |-> TRUE]
    ELSE IF outs[retry + 1].ok
         THEN [value |-> outs[retry + 1].count, calls |-> retry + 1,
               warnings |-> retry, failed |-> FALSE]
         ELSE wrapper_from(outs, retry + 1)

\* a plausible slip: the partial counts of the failed attempts leak into the value
RECURSIVE wrapper_leak(_, _, _)
wrapper_leak(outs, retry, acc) ==
    IF retry >= retries
    THEN [value |-> acc, calls |-> retry, warnings |-> retry, failed |-> TRUE]
    ELSE IF outs[retry + 1].ok
         THEN [value |-> acc + outs[retry + 1].count, calls |-> retry + 1,
               warnings |-> retry, failed |-> FALSE]
         ELSE wrapper_leak(outs, retry + 1, acc + outs[retry + 1].count)

wrapper_bug(outs) == wrapper_leak(outs, 0, 0)

wrapper(outs) == wrapper_from(outs, 0)

\* log_enumeration_failure, lines 43-50, after a wrapper result r
FlagAfter(r) == has_enumeration_errors \/ r.failed

ErrorsAfter(r) == enumeration_errors + (IF r.failed THEN 1 ELSE 0)

Attempts == {Attempt(ok, c) : ok \in BOOLEAN, c \in 0..MaxCount}

\* every behaviour of a lister over the calls the wrapper may make
AttemptRuns == [1..retries -> Attempts]


\* the attempts the runs of the model draw from: n failing calls, each raising
\* with the partial count p, then calls that return c
ListerRun(n, p, c) == [i \in 1..retries |-> IF i <= n THEN Attempt(FALSE, p) ELSE Attempt(TRUE, c)]

\* what the lister of a run gave: <<>> when every call raised, <<c>> when the
\* first call that did not raise returned c
Returned(outs) ==
    IF \A i \in 1..retries : ~outs[i].ok THEN <<>>
    ELSE <<outs[CHOOSE i \in 1..retries : outs[i].ok /\ \A j \in 1..(i - 1) : ~outs[j].ok].count>>

\* the runs a lister may take after errors invocations have failed and handed
\* resources have been counted: the count it returns fits the inventory left, and
\* it may fail every call only while fewer than MaxErrors invocations have
ListerRuns(errors, handed) ==
    {ListerRun(n, p, c) :
        n \in 0..(IF errors < MaxErrors THEN retries ELSE retries - 1),
        p \in 0..MaxPartial,
        c \in 0..(MaxResources - handed)}

---------------------------------------------------------------------------
(* print_results, lines 237-251.                                           *)

\* count * 1.1 in double precision is 11 * count / 10 or just above it; these are
\* the counts up to 250 at which it is above and a rounding tie is decided by it
FloatAbove == {25, 45, 50, 55, 85, 95, 105, 115, 165, 175, 185, 195, 205, 215, 225}

\* Python's round() of num / den, a tie going to the even integer unless the
\* double is above the tie
round(num, den, above) ==
    LET q == num \div den
        r2 == 2 * (num - q * den)
    IN  IF r2 > den THEN q + 1
        ELSE IF r2 < den THEN q
        ELSE IF above THEN q + 1
        ELSE IF q % 2 = 0 THEN q ELSE q + 1

\* line 243: the corrected count as the fraction num / den
corrected(service, count) ==
    IF service = "ecr" THEN [num |-> 11 * count, den |-> 10, above |-> count \in FloatAbove]
    ELSE [num |-> count, den |-> 1, above |-> FALSE]

\* a plausible slip: no floor of one unit for a positive count
workloads_nofloor(service, count) ==
    LET x == corrected(service, count)
    IN  round(x.num, x.den * workload_units(service), x.above)

\* lines 244-246
workloads_of(service, count) ==
    LET x == corrected(service, count)
        w == round(x.num, x.den * workload_units(service), x.above)
    IN  IF w = 0 /\ x.num > 0 THEN 1 ELSE w

\* round(count) of line 247
shown_count(service, count) ==
    LET x == corrected(service, count) IN round(x.num, x.den, x.above)

\* the block print_results logs; account_id is <<>> for None
result_str(results, account_id) ==
    LET log_total_results == account_id = <<>>
        units == [s \in DOMAIN results |-> workloads_of(s, results[s])]
    IN  [account |-> account_id,
         lines |-> [s \in DOMAIN results |->
                      [count |-> shown_count(s, results[s]),
                       units |-> IF log_total_results THEN <<units[s]>> ELSE <<>>]],
         total |-> IF log_total_results THEN <<SumOver(units, DOMAIN results)>> ELSE <<>>]

\* a plausible slip: the corrected count written back into the dictionary
print_results_store(results, account_id) ==
    [log |-> result_str(results, account_id),
     results |-> [s \in DOMAIN results |-> shown_count(s, results[s])]]

\* the block logged, and the dictionary as the call leaves it: count is a local
\* of the loop, the dictionary is not written
print_results(results, account_id) ==
    [log |-> result_str(results, account_id), results |-> results]

---------------------------------------------------------------------------
(* The accounts.  get_aws_account_id (lines 34-40) names the account of    *)
(* the direct session; cove never opens a session on it, and reports the   *)
(* member accounts by their Id.                                            *)

HostAccount == 0

Members == 1..NumMembers

\* log_results_per_account, lines 254-261: the accounts in order of first
\* appearance, each with the sum of its results, printed one by one
RECURSIVE AccountsOf(_)
AccountsOf(results) ==
    IF results = <<>> THEN <<>>
    ELSE LET rest == AccountsOf(Tail(results))
         IN  <<Head(results).Id>> \o SelectSeq(rest, LAMBDA a : a # Head(results).Id)

RECURSIVE AddAll(_, _, _)
AddAll(d, result, items) ==
    IF items = <<>> THEN d
    ELSE AddAll(AddTo(d, Head(items), result[Head(items)]), result, Tail(items))

\* for result in Results: for service, count in result["Result"].items(): d[service] += count
RECURSIVE Fold(_, _)
Fold(d, results) ==
    IF results = <<>> THEN d
    ELSE Fold(AddAll(d, Head(results).Result, ConfItems(DOMAIN Head(results).Result)),
              Tail(results))

\* a plausible slip: the first result of the list left out of the sum
aggregate_skip_first(totals, results) ==
    IF results = <<>> THEN totals ELSE Fold(totals, Tail(results))

\* lines 343-345
aggregate(totals, results) == Fold(totals, results)

log_results_per_account(results) ==
    LET ids == AccountsOf(results)
    IN  [i \in 1..Len(ids) |->
            print_results(Fold(EmptyDict, SelectSeq(results, LAMBDA r : r.Id = ids[i])),
                          <<ids[i]>>).log]

---------------------------------------------------------------------------
(* main, lines 288-363.                                                    *)

\* args = _parser.parse_args(), line 319: the flags read before the direct account
\* is counted (lines 320-325).  args.accounts_list and args.only_current_account
\* are drawn where main reads them, lines 328-329.
Arguments == [skip : SUBSET Services, show_logs_per_account : BOOLEAN]

Init ==
    /\ pc = "parsed"
    /\ args \in Arguments
    /\ SERVICES_CONF = Services
    /\ total_results = EmptyDict
    /\ loop = <<1, 1>>
    /\ guard_log = EmptyDict
    /\ direct_results = EmptyDict
    /\ accounts_list = {}
    /\ only_current_account = FALSE
    /\ tasks = EmptyDict
    /\ results_of_all_regions = <<>>
    /\ has_enumeration_errors = FALSE
    /\ enumeration_errors = 0
    /\ counted = 0
    /\ reports = <<>>
    /\ notices = {}
    /\ input = <<>>
    /\ output = <<>>

\* a plausible slip: the last kind is never popped
pop_but_last(conf, skip) == conf \ (skip \ {AllServices[Len(AllServices)]})

\* lines 266-283: SERVICES_CONF.pop(kind) for each kind whose flag is set
pop_skipped(conf, skip) == conf \ skip

\* set_skip_resources (lines 264-285) and lines 320-323
set_skip_resources ==
    /\ pc = "parsed"
    /\ SERVICES_CONF' = pop_skipped(SERVICES_CONF, args.skip)
    /\ IF SERVICES_CONF' = {}
       THEN /\ notices' = notices \cup {"skip", "all_skipped"}
            /\ pc' = "returned"
       ELSE /\ notices' = IF args.skip # {} THEN notices \cup {"skip"} ELSE notices
            /\ pc' = "count"
    /\ UNCHANGED <<flags, total_results, direct, direct_results, threads, failures,
                   reports, alone>>

\* a plausible slip: = for +=
overwrite(totals, service, value) == [x \in (DOMAIN totals) \cup {service} |->
                                        IF x = service THEN value ELSE totals[x]]

\* total_results[service_name] += value, line 233
accumulate(totals, service, value) == AddTo(totals, service, value)

\* line 233, one pass of the inner loop of current_account_resources_count:
\* total_results[service_name] += conf["function"](session, service_name, region)
count_service ==
    /\ pc = "count"
    /\ loop[1] <= NumRegions
    /\ LET items == ConfItems(SERVICES_CONF)
           region == loop[1]
           service == items[loop[2]]
       IN  \E outs \in ListerRuns(enumeration_errors, counted) :
             LET r == wrapper(outs)
                 at == <<region, service>>
             IN  /\ total_results' = accumulate(total_results, service, r.value)
                 /\ guard_log' = [x \in (DOMAIN guard_log) \cup {at} |->
                                    IF x = at
                                    THEN [calls |-> (IF at \in DOMAIN guard_log
                                                     THEN guard_log[at].calls ELSE 0) + 1,
                                          value |-> r.value,
                                          lister |-> Returned(outs)]
                                    ELSE guard_log[x]]
                 /\ has_enumeration_errors' = FlagAfter(r)
                 /\ enumeration_errors' = ErrorsAfter(r)
                 /\ counted' = counted + r.value
                 /\ loop' = IF loop[2] < Len(items) THEN <<region, loop[2] + 1>>
                            ELSE <<region + 1, 1>>
    /\ UNCHANGED <<pc, flags, SERVICES_CONF, direct_results, threads, logged, alone>>

\* line 234 and lines 327-329: the loop is over, main holds the totals of the
\* direct account and reads the two flags that decide what follows
current_account_resources_count ==
    /\ pc = "count"
    /\ loop[1] > NumRegions
    /\ direct_results' = total_results
    /\ accounts_list' \in SUBSET Members
    /\ only_current_account' \in BOOLEAN
    /\ guard_log' = EmptyDict
    /\ loop' = <<1, 1>>
    /\ pc' = "counted"
    /\ UNCHANGED <<args, SERVICES_CONF, total_results, threads, failures, logged, alone>>

\* lines 329-332
print_current_account ==
    /\ pc = "counted"
    /\ only_current_account
    /\ LET own == print_results(total_results, <<HostAccount>>)
           kept == IF args.show_logs_per_account THEN own.results ELSE total_results
           total == print_results(kept, <<>>)
       IN  /\ reports' = reports
                         \o (IF args.show_logs_per_account THEN <<own.log>> ELSE <<>>)
                         \o <<total.log>>
           /\ total_results' = total.results
    /\ pc' = "notice"
    /\ UNCHANGED <<flags, SERVICES_CONF, direct, direct_results, threads, failures,
                   notices, alone>>

\* the accounts cove opens sessions on: target_ids, or every member of the
\* organization; the account of the caller is never one of them
Targets == IF accounts_list = {} THEN Members ELSE accounts_list

\* lines 337 and 340, the call: cove assumes the role in each target account (those
\* in failed are refused) and starts get_cove_region_resources on every session
cove_start ==
    /\ pc = "counted"
    /\ ~only_current_account
    /\ \E failed \in SUBSET Targets :
         /\ tasks' = [t \in (Targets \ failed) \X ALL_REGIONS |-> <<>>]
         /\ results_of_all_regions' = <<[Results |-> <<>>,
                                         Exceptions |-> {},
                                         FailedAssumeRole |-> failed \X ALL_REGIONS]>>
    /\ pc' = "cove"
    /\ UNCHANGED <<flags, SERVICES_CONF, total_results, direct, direct_results, failures,
                   logged, alone>>

\* lines 222-223, the loop over items from each of the states in accs:
\* results[service_name] += conf["function"](session, service_name)
RECURSIVE region_resources(_, _)
region_resources(items, accs) ==
    IF items = <<>> THEN accs
    ELSE region_resources(Tail(items),
           UNION {{LET r == wrapper(outs)
                   IN  [Result |-> AddTo(a.Result, Head(items), r.value),
                        errors |-> a.errors + (IF r.failed THEN 1 ELSE 0),
                        handed |-> a.handed + r.value]
                   : outs \in ListerRuns(a.errors, a.handed)} : a \in accs})

\* what one run of get_cove_region_resources over the kinds of conf can return,
\* after errors failed invocations and handed counted resources
RegionOutcomes ==
    EmptyDict @@ [conf \in SUBSET Services, e \in 0..MaxErrors, h \in 0..MaxResources |->
        region_resources(ConfItems(conf), {[Result |-> EmptyDict, errors |-> e, handed |-> h]})]

\* get_cove_region_resources, lines 220-224, in the thread of session t.  The body
\* shares nothing with the other threads but the error flag, which it only sets
\* and never reads, so it is taken in one step; the threads run in any order.
get_cove_region_resources(t) ==
    /\ pc = "cove"
    /\ t \in DOMAIN tasks
    /\ tasks[t] = <<>>
    /\ \E a \in RegionOutcomes[SERVICES_CONF, enumeration_errors, counted] :
         /\ tasks' = [tasks EXCEPT ![t] = <<a.Result>>]
         /\ has_enumeration_errors' = (has_enumeration_errors \/ a.errors > enumeration_errors)
         /\ enumeration_errors' = a.errors
         /\ counted' = a.handed
    /\ UNCHANGED <<pc, flags, SERVICES_CONF, total_results, direct, direct_results,
                   results_of_all_regions, logged, alone>>

cove_thread == \E t \in Members \X ALL_REGIONS : get_cove_region_resources(t)

\* cove returns once every thread has: Results holds one entry per session, in the
\* order of the sessions (account by account, region by region)
RECURSIVE SessionResults(_, _)
SessionResults(a, r) ==
    IF a > NumMembers THEN <<>>
    ELSE IF r > NumRegions THEN SessionResults(a + 1, 1)
    ELSE (IF <<a, r>> \in DOMAIN tasks
          THEN <<[Id |-> a, Region |-> r, Result |-> tasks[<<a, r>>][1]]>>
          ELSE <<>>) \o SessionResults(a, r + 1)

cove_return ==
    /\ pc = "cove"
    /\ \A t \in DOMAIN tasks : tasks[t] # <<>>
    /\ results_of_all_regions' =
         <<[results_of_all_regions[1] EXCEPT !.Results = SessionResults(1, 1)]>>
    /\ tasks' = EmptyDict
    /\ pc' = "collect"
    /\ UNCHANGED <<flags, SERVICES_CONF, total_results, direct, direct_results, failures,
                   logged, alone>>

\* lines 341-354, once cove has returned
collect_results ==
    /\ pc = "collect"
    /\ LET rall == results_of_all_regions[1]
           own == print_results(total_results, <<HostAccount>>)
           kept == IF args.show_logs_per_account THEN own.results ELSE total_results
           summed == aggregate(kept, rall.Results)
           total == print_results(summed, <<>>)
           nerrors == Cardinality(rall.Exceptions) + Cardinality(rall.FailedAssumeRole)
       IN  /\ reports' = reports
                         \o (IF args.show_logs_per_account
                             THEN <<own.log>> \o log_results_per_account(rall.Results)
                             ELSE <<>>)
                         \o <<total.log>>
           /\ total_results' = total.results
           /\ notices' = IF nerrors > 0 THEN notices \cup {"provider_errors"} ELSE notices
    /\ pc' = "notice"
    /\ UNCHANGED <<flags, SERVICES_CONF, direct, direct_results, threads, failures, alone>>

\* lines 355-360: cove raised the AttributeError of an account outside any organization
cove_not_organization ==
    /\ pc = "counted"
    /\ ~only_current_account
    /\ notices' = notices \cup {"not_organization"}
    /\ pc' = "notice"
    /\ UNCHANGED <<flags, SERVICES_CONF, total_results, direct, direct_results, threads,
                   failures, reports, alone>>

\* lines 355-356: cove raised another AttributeError; the handler logs nothing
cove_attribute_error ==
    /\ pc = "counted"
    /\ ~only_current_account
    /\ pc' = "notice"
    /\ UNCHANGED <<flags, SERVICES_CONF, total_results, direct, direct_results, threads,
                   failures, logged, alone>>

\* lines 334-355: cove raised an exception that is no AttributeError (it found no
\* eligible account, for one); no handler takes it and it leaves main
cove_raises ==
    /\ pc = "counted"
    /\ ~only_current_account
    /\ pc' = "raised"
    /\ UNCHANGED <<flags, SERVICES_CONF, total_results, direct, direct_results, threads,
                   failures, logged, alone>>

\* lines 362-363
enumeration_errors_notice ==
    /\ pc = "notice"
    /\ notices' = IF has_enumeration_errors THEN notices \cup {"enumeration_errors"} ELSE notices
    /\ pc' = "returned"
    /\ UNCHANGED <<flags, SERVICES_CONF, total_results, direct, direct_results, threads,
                   failures, reports, alone>>

Next ==
    \/ set_skip_resources
    \/ count_service
    \/ current_account_resources_count
    \/ print_current_account
    \/ cove_start
    \/ cove_thread
    \/ cove_return
    \/ collect_results
    \/ cove_not_organization
    \/ cove_attribute_error
    \/ cove_raises
    \/ enumeration_errors_notice

Spec == Init /\ [][Next]_vars

---------------------------------------------------------------------------
(* The wrapper on its own: one invocation, over every behaviour of the     *)
(* lister on the calls it may receive.                                     *)

\* main is not running
MainIdle ==
    /\ args = [skip |-> {}, show_logs_per_account |-> FALSE]
    /\ SERVICES_CONF = Services
    /\ total_results = EmptyDict
    /\ loop = <<1, 1>>
    /\ guard_log = EmptyDict
    /\ direct_results = EmptyDict
    /\ accounts_list = {}
    /\ only_current_account = FALSE
    /\ tasks = EmptyDict
    /\ results_of_all_regions = <<>>
    /\ reports = <<>>
    /\ notices = {}

InitRetry ==
    /\ pc = "retry"
    /\ input \in {<<outs>> : outs \in AttemptRuns}
    /\ output = <<>>
    /\ has_enumeration_errors \in BOOLEAN
    /\ enumeration_errors = 0
    /\ counted = 0
    /\ MainIdle

\* one call of a decorated lister
retry_call ==
    /\ pc = "retry"
    /\ output = <<>>
    /\ LET r == wrapper(input[1])
       IN  /\ output' = <<r>>
           /\ has_enumeration_errors' = FlagAfter(r)
           /\ enumeration_errors' = ErrorsAfter(r)
           /\ counted' = counted + r.value
    /\ UNCHANGED <<pc, flags, SERVICES_CONF, total_results, direct, direct_results,
                   threads, logged, input>>

NextRetry == retry_call

SpecRetry == InitRetry /\ [][NextRetry]_vars

\* C1: a lister that fails on exactly its first two calls and succeeds on the third
\* gives the wrapper the value of the third call and no EnumerationError; a lister
\* that fails all three calls gives 0 and exactly one EnumerationError (and the flag
\* set); the lister is never called more than three times, and the wrapper always
\* returns a count.
C1_RetryGuard ==
    (pc = "retry" /\ output # <<>>) =>
        LET outs == input[1]
            r == output[1]
        IN  /\ r.calls <= 3
            /\ r.value \in Nat
            /\ (~outs[1].ok /\ ~outs[2].ok /\ outs[3].ok) =>
                   /\ r.value = outs[3].count
                   /\ r.calls = 3
                   /\ enumeration_errors = 0
            /\ (~outs[1].ok /\ ~outs[2].ok /\ ~outs[3].ok) =>
                   /\ r.value = 0
                   /\ r.calls = 3
                   /\ enumeration_errors = 1
                   /\ has_enumeration_errors

C1_Witness ==
    /\ pc = "retry"
    /\ output # <<>>
    /\ input[1] = <<Attempt(FALSE, 1), Attempt(FALSE, 2), Attempt(TRUE, 2)>>
    /\ output[1].value = 2
    /\ ~has_enumeration_errors

---------------------------------------------------------------------------
(* is_image_used (lines 126-146) and get_region_vm_images (lines 149-160). *)
(* An image is [create_time, attribute]; attribute is the response of      *)
(* describe_image_attribute: <<>> without a LastLaunchedTime value, <<t>>  *)
(* with the value t.                                                       *)

\* images one region holds
MaxImages == 2

\* datetime.timedelta(days=30), line 138
days == 30

\* a plausible slip: >= for > at line 139
created_recently_or_on(create_time, last_valid_use_date) == create_time >= last_valid_use_date

\* line 139
created_recently(create_time, last_valid_use_date) == create_time > last_valid_use_date

\* get_image_last_used_time, lines 127-136: None is <<>>
get_image_last_used_time(vm_image) ==
    IF vm_image.attribute # <<>> THEN <<vm_image.attribute[1]>> ELSE <<>>

is_image_used(vm_image, now) ==
    LET last_valid_use_date == now - days
    IN  IF created_recently(vm_image.create_time, last_valid_use_date) THEN TRUE
        ELSE LET last_used == get_image_last_used_time(vm_image)
             IN  IF last_used # <<>> /\ last_used[1] > last_valid_use_date THEN TRUE ELSE FALSE

\* lines 155-160: len([... for vm_image in vm_images if is_image_used(vm_image, client)])
get_region_vm_images(vm_images, now) ==
    Len(SelectSeq(vm_images, LAMBDA vm_image : is_image_used(vm_image, now)))

\* ages, in days, of the creations and launches drawn
Ages == {5, 10, 29, 30, 31, 60}

Nows == {100, 101}

ImagesAt(now) ==
    [create_time : {now - a : a \in Ages},
     attribute : {<<>>} \cup {<<now - a>> : a \in Ages}]

InitImage ==
    /\ pc = "images"
    /\ \E now \in Nows, n \in 0..MaxImages :
         input \in {<<[now |-> now, vm_images |-> v]>> : v \in [1..n -> ImagesAt(now)]}
    /\ output = <<>>
    /\ has_enumeration_errors = FALSE
    /\ enumeration_errors = 0
    /\ counted = 0
    /\ MainIdle

\* one successful call of the lister of VM images
list_vm_images ==
    /\ pc = "images"
    /\ output = <<>>
    /\ LET now == input[1].now
           vm_images == input[1].vm_images
       IN  output' = <<[used |-> [i \in 1..Len(vm_images) |-> is_image_used(vm_images[i], now)],
                        count |-> get_region_vm_images(vm_images, now)]>>
    /\ UNCHANGED <<pc, flags, SERVICES_CONF, total_results, direct, direct_results,
                   threads, failures, logged, input>>

NextImage == list_vm_images

SpecImage == InitImage /\ [][NextImage]_vars

\* the age of an instant, in days
AgeAt(now, t) == now - t

\* C9: an image is used exactly when it was created less than 30 days ago, or has a
\* last-launch value less than 30 days old; without the value it counts as never
\* launched.  Created 5 days ago: used whatever the launches; created 60 days ago
\* without a launch: stale; created 60 days ago and launched 10 days ago: used.  The
\* lister returns the number of used images.
C9_UsageFilter ==
    (pc = "images" /\ output # <<>>) =>
        LET now == input[1].now
            imgs == input[1].vm_images
            used == output[1].used
            Recent(i) == AgeAt(now, imgs[i].create_time) < 30
            Launched(i) == /\ imgs[i].attribute # <<>>
                           /\ AgeAt(now, imgs[i].attribute[1]) < 30
        IN  /\ \A i \in 1..Len(imgs) :
                 /\ used[i] <=> (Recent(i) \/ Launched(i))
                 /\ AgeAt(now, imgs[i].create_time) = 5 => used[i]
                 /\ (AgeAt(now, imgs[i].create_time) = 60 /\ imgs[i].attribute = <<>>) => ~used[i]
                 /\ (AgeAt(now, imgs[i].create_time) = 60 /\ imgs[i].attribute = <<now - 10>>)
                        => used[i]
            /\ output[1].count = Cardinality({i \in 1..Len(imgs) : Recent(i) \/ Launched(i)})

C9_Witness ==
    /\ pc = "images"
    /\ output # <<>>
    /\ Len(input[1].vm_images) = 2
    /\ input[1].vm_images[1] = [create_time |-> input[1].now - 60, attribute |-> <<>>]
    /\ input[1].vm_images[2] = [create_time |-> input[1].now - 60,
                                attribute |-> <<input[1].now - 10>>]
    /\ output[1].used = <<FALSE, TRUE>>
    /\ output[1].count = 1

---------------------------------------------------------------------------
(* The report on its own: lines 329-332 and 362-363 of a run on the        *)
(* current account, from totals larger than the runs of Spec count.        *)

\* largest count of the first kind drawn
MaxRaw == 100
\* largest count of the second kind drawn
MaxOther == 3

ReportInputs ==
    {[k \in Services |-> IF k = k1 THEN c1 ELSE IF k = k2 THEN c2 ELSE 0] :
        k1 \in Services, c1 \in 0..MaxRaw, k2 \in Services, c2 \in 0..MaxOther}

InitReport ==
    /\ pc = "counted"
    /\ args \in [skip : {{}}, show_logs_per_account : BOOLEAN]
    /\ SERVICES_CONF = Services
    /\ total_results \in ReportInputs
    /\ direct_results = total_results
    /\ only_current_account = TRUE
    /\ accounts_list = {}
    /\ loop = <<1, 1>>
    /\ guard_log = EmptyDict
    /\ tasks = EmptyDict
    /\ results_of_all_regions = <<>>
    /\ has_enumeration_errors = FALSE
    /\ enumeration_errors = 0
    /\ counted = 0
    /\ reports = <<>>
    /\ notices = {}
    /\ input = <<>>
    /\ output = <<>>

NextReport ==
    \/ print_current_account
    \/ enumeration_errors_notice

SpecReport == InitReport /\ [][NextReport]_vars

\* |a - b|
Dist(a, b) == IF a >= b THEN a - b ELSE b - a

\* the corrected count of kind s at raw count c, as a fraction of tenths
Tenths(s, c) == IF s = "ecr" THEN 11 * c ELSE 10 * c

\* C5: in the grand-total report the workload units of a kind are the corrected
\* count over the divisor rounded to a nearest integer, except that a positive
\* count gives at least 1 unit; a count of 0 gives 0 units; the total is the sum of
\* the units of the kinds.  Divisor 10 and count 1 give 1 unit; the totals
\* {VM: 3, Function: 2} give 3 + 1 = 4 units.
C5_WorkloadUnits ==
    \A i \in 1..Len(reports) :
        reports[i].account = <<>> =>
            LET lines == reports[i].lines
                u(s) == lines[s].units[1]
                c(s) == direct_results[s]
                d(s) == 10 * workload_units(s)
            IN  /\ DOMAIN lines = DOMAIN direct_results
                /\ \A s \in DOMAIN lines :
                     /\ c(s) = 0 => u(s) = 0
                     /\ c(s) > 0 =>
                          /\ u(s) >= 1
                          /\ \/ 2 * Dist(u(s) * d(s), Tenths(s, c(s))) <= d(s)
                             \/ u(s) = 1 /\ 2 * Tenths(s, c(s)) < d(s)
                /\ reports[i].total = <<SumOver([s \in DOMAIN lines |-> u(s)], DOMAIN lines)>>
                /\ c("ecs") = 1 => u("ecs") = 1
                /\ (c("ec2") = 3 /\ c("lambda") = 2 /\ \A s \in Services \ {"ec2", "lambda"} : c(s) = 0)
                       => (u("ec2") = 3 /\ u("lambda") = 1 /\ reports[i].total = <<4>>)

C5_Witness ==
    /\ reports # <<>>
    /\ direct_results = [k \in Services |-> IF k = "ec2" THEN 3 ELSE IF k = "lambda" THEN 2 ELSE 0]
    /\ reports[Len(reports)].account = <<>>
    /\ reports[Len(reports)].total = <<4>>

\* C6: every report line shows the count of the kind as it was aggregated, but for
\* the container images, shown at 1.1 times their count (to a nearest integer); the
\* factor is applied once per line and the totals held are left as they were, so the
\* block of the account printed first does not change the grand total.  100
\* container images are shown as 110 and give 11 workload units.
C6_ContainerImageCorrection ==
    /\ total_results = direct_results
    /\ \A i \in 1..Len(reports) :
         LET lines == reports[i].lines
         IN  /\ \A s \in DOMAIN lines :
                  IF s = "ecr"
                  THEN 2 * Dist(10 * lines[s].count, 11 * direct_results[s]) <= 10
                  ELSE lines[s].count = direct_results[s]
             /\ direct_results["ecr"] = 100 =>
                  /\ lines["ecr"].count = 110
                  /\ reports[i].account = <<>> => lines["ecr"].units = <<11>>

C6_Witness ==
    /\ Len(reports) = 2
    /\ direct_results["ecr"] = 100
    /\ reports[1].account = <<HostAccount>>
    /\ reports[1].lines["ecr"].count = 110
    /\ reports[2].account = <<>>
    /\ reports[2].lines["ecr"] = [count |-> 110, units |-> <<11>>]

---------------------------------------------------------------------------
(* The properties of a run of main, under Spec.                             *)

\* the grand-total blocks logged so far
TotalReports == {i \in 1..Len(reports) : reports[i].account = <<>>}

\* C2: when cove signals that the account is in no organization, the final report
\* is emitted and is the report of the totals of the direct account, no failed role
\* assumption is reported and the condition sets no enumeration error.
C2_DegradedReport ==
    (pc = "returned" /\ "not_organization" \in notices) =>
        /\ reports # <<>>
        /\ reports[Len(reports)] = print_results(direct_results, <<>>).log
        /\ "provider_errors" \notin notices
        /\ (has_enumeration_errors <=> enumeration_errors > 0)

\* C3: a run with a kind enabled, whatever its listers did and whether cove
\* returned or raised an AttributeError, has printed the grand total exactly once
\* when main returns.
C3_ReportOnce ==
    (pc = "returned" /\ SERVICES_CONF # {}) => Cardinality(TotalReports) = 1

\* the accounts cove reported as refusing the role
FailedAccounts == {t[1] : t \in results_of_all_regions[1].FailedAssumeRole}

C7_ErrorsNotice ==
    pc \in {"returned", "raised"} =>
        /\ enumeration_errors > 0 => has_enumeration_errors /\ "enumeration_errors" \in notices
        /\ enumeration_errors = 0 => "enumeration_errors" \notin notices

\* C8: with all six kinds skipped main logs the message and returns: no lister is
\* called, cove is not called, nothing is reported.  Otherwise the listers called,
\* in the direct loop and in the threads, are those of the kinds not skipped.
C8_SkipFlags ==
    pc # "parsed" =>
        /\ args.skip = Services =>
             /\ pc = "returned"
             /\ "all_skipped" \in notices
             /\ reports = <<>>
             /\ loop = <<1, 1>>
             /\ guard_log = EmptyDict
             /\ total_results = EmptyDict
             /\ tasks = EmptyDict
             /\ results_of_all_regions = <<>>
             /\ counted = 0
             /\ enumeration_errors = 0
        /\ args.skip # Services =>
             /\ "all_skipped" \notin notices
             /\ \A at \in DOMAIN guard_log : at[2] \notin args.skip
             /\ DOMAIN total_results \subseteq Services \ args.skip
             /\ pc \notin {"count", "returned"} => DOMAIN total_results = Services \ args.skip
             /\ \A t \in DOMAIN tasks :
                  tasks[t] # <<>> => DOMAIN tasks[t][1] = Services \ args.skip
             /\ \A i \in 1..Len(reports) : DOMAIN reports[i].lines = Services \ args.skip

C8_Witness ==
    /\ pc = "returned"
    /\ args.skip = Services
    /\ notices = {"skip", "all_skipped"}

\* C10: in the loop over the direct account the wrapper is called once for every
\* (region, enabled kind) reached, whatever happened at the pairs before; its value
\* is 0 when every call of the lister raised and otherwise the count of the call
\* that returned; and when the loop is over the total of each kind is the sum over
\* the regions of the values of the wrapper.
C10_RegionFanOut ==
    pc = "count" =>
        LET items == ConfItems(Services \ args.skip)
            done == {<<r, items[j]>> : r \in 1..(loop[1] - 1), j \in 1..Len(items)}
                    \cup {<<loop[1], items[j]>> : j \in 1..(loop[2] - 1)}
        IN  /\ DOMAIN guard_log = done
            /\ \A at \in done :
                 /\ guard_log[at].calls = 1
                 /\ guard_log[at].value =
                      (IF guard_log[at].lister = <<>> THEN 0 ELSE guard_log[at].lister[1])
            /\ loop[1] > NumRegions =>
                 /\ done = (1..NumRegions) \X (Services \ args.skip)
                 /\ DOMAIN total_results = Services \ args.skip
                 /\ \A k \in Services \ args.skip :
                      total_results[k] =
                        SumOver([r \in 1..NumRegions |-> guard_log[<<r, k>>].value], 1..NumRegions)

C10_Witness ==
    /\ pc = "count"
    /\ loop[1] > NumRegions
    /\ \E k \in SERVICES_CONF :
         /\ guard_log[<<1, k>>].lister = <<>>
         /\ guard_log[<<2, k>>].lister = <<2>>
         /\ total_results[k] = 2
         /\ has_enumeration_errors

===========================================================================
